---- MODULE Spec2Model ----
(***************************************************************************)
(* Model of src/data/preparations.py: the dataset partitioner/exporter     *)
(* (lines 114-162) followed by the ChexNet checkpoint key remapper (lines  *)
(* 173-230).  The script is one sequential run; every action below is one  *)
(* statement or one loop iteration of it.                                  *)
(*                                                                         *)
(* Text that the code slices, matches or concatenates (file names, state   *)
(* dict keys, json object keys) is a sequence of one-character strings.    *)
(* Column names and printed messages, which the code only compares or      *)
(* prints, are plain strings.                                              *)
(*                                                                         *)
(* Environment assumed by the model: the output directories csv/, json/    *)
(* and models/ exist and are writable and start empty, and the pretrained  *)
(* backbone can be constructed.                                            *)
(***************************************************************************)
EXTENDS Integers, Sequences, FiniteSets, TLC

\* ------------------------------------------------------------ bounds
\* Largest number of rows of a source table in the single-file runs.
MaxRows == 4
\* Largest number of source files in the input directory.
MaxFiles == 2
\* Largest number of entries of the checkpoint's state_dict.
MaxKeys == 3

\* ------------------------------------------------------------ text
WrapperPrefix == <<"m", "o", "d", "u", "l", "e", ".">>
sDenselayer == <<"d", "e", "n", "s", "e", "l", "a", "y", "e", "r">>
sNorm == <<"n", "o", "r", "m">>
sRelu == <<"r", "e", "l", "u">>
sConv == <<"c", "o", "n", "v">>
sWeight == <<"w", "e", "i", "g", "h", "t">>
sBias == <<"b", "i", "a", "s">>
sRunningMean == <<"r", "u", "n", "n", "i", "n", "g", "_", "m", "e", "a", "n">>
sRunningVar == <<"r", "u", "n", "n", "i", "n", "g", "_", "v", "a", "r">>
sFeaturesNorm == <<"f", "e", "a", "t", "u", "r", "e", "s", ".", "d", "e", "n", "s", "e", "l", "a", "y", "e", "r", "1", ".", "n", "o", "r", "m">>
sClassifier == <<"c", "l", "a", "s", "s", "i", "f", "i", "e", "r", ".", "0", ".", "w", "e", "i", "g", "h", "t">>
sTrainCsv == <<"_", "t", "r", "a", "i", "n", ".", "c", "s", "v">>
sValCsv == <<"_", "v", "a", "l", ".", "c", "s", "v">>
sTestCsv == <<"_", "t", "e", "s", "t", ".", "c", "s", "v">>
sTrainJsonl == <<"_", "t", "r", "a", "i", "n", ".", "j", "s", "o", "n", "l">>
sValJsonl == <<"_", "v", "a", "l", ".", "j", "s", "o", "n", "l">>
sTestJsonl == <<"_", "t", "e", "s", "t", ".", "j", "s", "o", "n", "l">>
sDot == <<".">>
Digits == <<"0", "1", "2", "3", "4", "5", "6", "7", "8", "9">>

\* s[a:] of Python, a >= 0.
DropFirst(s, a) == SubSeq(s, a + 1, Len(s))

StartsWith(s, p) == Len(s) >= Len(p) /\ SubSeq(s, 1, Len(p)) = p

EndsWith(s, p) == Len(s) >= Len(p) /\ SubSeq(s, Len(s) - Len(p) + 1, Len(s)) = p

\* s without its last a characters (a <= Len(s)).
DropLast(s, a) == SubSeq(s, 1, Len(s) - a)

IsDigit(c) == \E d \in 1..10 : Digits[d] = c

Range(s) == {s[j] : j \in 1..Len(s)}

\* str(n) for n >= 0: the decimal digits of n.
RECURSIVE IntToStr(_)
IntToStr(n) == IF n < 10 THEN <<Digits[n + 1]>>
               ELSE IntToStr(n \div 10) \o <<Digits[(n % 10) + 1]>>

\* ------------------------------------------------------------ inputs
\* File names the input directory may hold.
fA == <<"a", ".", "c", "s", "v">>
fAB == <<"a", ".", "b", ".", "c", "s", "v">>
fB == <<"b", ".", "c", "s", "v">>
FileNames == {fA, fAB, fB}

\* Header rows a source file may have: the three label columns, alone or
\* together with a column that is itself called id.
StdColumns == <<"Filename", "Label", "LabelText">>
IdColumns == <<"id", "Filename", "Label", "LabelText">>
ColumnChoices == {StdColumns, IdColumns}

\* Row counts of the tables in the runs over several files: an empty table
\* (its split fails) and the smallest table both splits accept.
RunRowCounts == {0, 3}

\* The text of the cell of column c in the r-th data line (r from 0).
CellValue(c, r) == <<"v">> \o IntToStr(r + 5)

\* pd.read_csv of a file with header cols and n data lines: a RangeIndex
\* 0..n-1 and one cell per column.
ReadCsvTable(cols, n) ==
    [columns |-> cols,
     rows |-> [r \in 1..n |-> [index |-> r - 1,
                               cells |-> [c \in Range(cols) |-> CellValue(c, r - 1)]]]]

\* ------------------------------------------------------------ state
VARIABLES
    pc,          \* position of the script
    failedAt,    \* the step whose uncaught exception ended the run, or "none"
    dirExists,   \* input: image_labels_csv exists
    listing,     \* input: os.listdir(path), entries [filename, readable, cols, n]
    csv_files,   \* list of (name, df)
    i,           \* 1-based position of the running for loop
    train,       \* rows of the last train partition
    val,         \* rows of the last validation partition
    test,        \* rows of the last test partition
    csvDir,      \* files in csv/: file name -> rows written
    jsonDir,     \* files in json/: file name -> lines written
    ckpt,        \* input: "absent", "corrupt" or "ok" (models/model.pth.tar)
    ckptDict,    \* input: checkpoint['state_dict'], a list of [k, v] in dict order
    state_dict,  \* the mapping being rewritten, a list of [k, v] in dict order
    keys,        \* list(state_dict.keys()), the snapshot
    k,           \* 1-based position in keys
    key,         \* loop variable of the remapping loop
    new_key,     \* new_key of the last iteration
    loadCalls,   \* number of model_ft.load_state_dict calls
    loaded,      \* load_state_dict returned
    modelFile,   \* writes of models/saved_chexnet.pt, each "pretrained" or "checkpoint"
    stdout       \* the checkpoint messages printed

vars == <<pc, failedAt, dirExists, listing, csv_files, i, train, val, test, csvDir,
          jsonDir, ckpt, ckptDict, state_dict, keys, k, key, new_key, loadCalls,
          loaded, modelFile, stdout>>

inputVars == <<dirExists, listing, ckpt, ckptDict>>
partVars == <<csv_files, i, train, val, test, csvDir, jsonDir>>
remapVars == <<state_dict, keys, k, key, new_key, loadCalls, loaded>>

\* A file name -> content mapping with no file.
EmptyDir == [p \in {} |-> <<>>]

\* An uncaught exception: the interpreter exits, nothing else changes.
Raise(step) == /\ pc' = "failed"
               /\ failedAt' = step

\* ------------------------------------------------------------ partitioner
\* filename.partition('.')[0]: the text before the first '.', the whole
\* name when it has none.
RECURSIVE PartitionHead(_)
PartitionHead(filename) ==
    IF filename = <<>> \/ Head(filename) = "." THEN <<>>
    ELSE <<Head(filename)>> \o PartitionHead(Tail(filename))

\* The column mapping of df.rename.
RenameColumn(c) == CASE c = "Filename" -> "img"
                     [] c = "Label" -> "label"
                     [] c = "LabelText" -> "text"
                     [] OTHER -> c

\* df.rename(columns={...}): the index and the cells stay, the names change.
Rename(df) ==
    [columns |-> [j \in 1..Len(df.columns) |-> RenameColumn(df.columns[j])],
     rows |-> [r \in 1..Len(df.rows) |->
                 [index |-> df.rows[r].index,
                  cells |-> [c \in {RenameColumn(x) : x \in Range(df.columns)} |->
                               df.rows[r].cells[CHOOSE x \in Range(df.columns) :
                                                   RenameColumn(x) = c]]]]]

\* os.listdir(path), line 126; FileNotFoundError when the directory is missing.
ListDir ==
    /\ pc = "listdir"
    /\ \/ /\ dirExists
          /\ pc' = "read"
          /\ UNCHANGED failedAt
       \/ /\ ~dirExists
          /\ Raise("listdir")
    /\ UNCHANGED <<inputVars, partVars, remapVars, modelFile, stdout>>

\* A loading loop that skips a file it cannot read.
ReadCsvSkips ==
    /\ pc = "read"
    /\ i <= Len(listing)
    /\ LET f == listing[i] IN
       /\ csv_files' = IF f.readable
                       THEN Append(csv_files,
                                   [name |-> PartitionHead(f.filename),
                                    df |-> Rename(ReadCsvTable(f.cols, f.n))])
                       ELSE csv_files
       /\ i' = i + 1
    /\ UNCHANGED <<pc, failedAt, inputVars, train, val, test, csvDir, jsonDir,
                   remapVars, modelFile, stdout>>

\* One iteration of the loading loop, lines 126-130.
ReadCsv ==
    /\ pc = "read"
    /\ i <= Len(listing)
    /\ LET f == listing[i] IN
       \/ /\ f.readable
          /\ csv_files' = Append(csv_files,
                                 [name |-> PartitionHead(f.filename),
                                  df |-> Rename(ReadCsvTable(f.cols, f.n))])
          /\ i' = i + 1
          /\ UNCHANGED <<pc, failedAt>>
       \/ /\ ~f.readable
          /\ Raise("read")
          /\ UNCHANGED <<csv_files, i>>
    /\ UNCHANGED <<inputVars, train, val, test, csvDir, jsonDir, remapVars, modelFile,
                   stdout>>

\* The loading loop is exhausted; the report loop of lines 133-135 only prints.
Report ==
    /\ pc = "read"
    /\ i > Len(listing)
    /\ pc' = "split"
    /\ i' = 1
    /\ UNCHANGED <<failedAt, inputVars, csv_files, train, val, test, csvDir, jsonDir,
                   remapVars, modelFile, stdout>>

\* ceil(n / den): n_test of sklearn's train_test_split for test_size = 1/den.
\* (0.2 * n and 0.25 * n round like the exact quotient for every n the
\* model reaches.)
NTest(n, den) == (n + den - 1) \div den

\* n_train = n_samples - n_test; train_test_split raises ValueError when the
\* train set would be empty.
NTrain(n, den) == n - NTest(n, den)

SplitFails(n, den) == NTrain(n, den) = 0

\* train_test_split(rows, test_size=1/den, random_state=1): a permutation of
\* the rows, the first n_test of it the test set and the next n_train the
\* train set.  The permutation the seed yields is not computed: any one.
Splits(rows, den) ==
    LET n == Len(rows)
        nt == NTest(n, den)
    IN {[test |-> [j \in 1..nt |-> rows[p[j]]],
         train |-> [j \in 1..NTrain(n, den) |-> rows[p[nt + j]]]] :
           p \in Permutations(1..n)}

\* A second split that is handed the whole table again.
SecondSplitInputWholeTable(dfRows, trainRows) == dfRows

\* The table handed to the second train_test_split: the first split's train
\* part (line 143).
SecondSplitInput(dfRows, trainRows) == trainRows

\* df.to_json(orient="index") read back by json.loads: one item per row, in
\* row order, keyed by the index label as text.
ToJsonIndex(rows) ==
    [j \in 1..Len(rows) |-> [idx |-> IntToStr(rows[j].index), data_dict |-> rows[j].cells]]

\* dict assignment of every item of g into f.
Update(f, g) ==
    [x \in (DOMAIN f) \cup (DOMAIN g) |-> IF x \in DOMAIN g THEN g[x] ELSE f[x]]

\* The lines create_jsonl_data writes from item j on, data_obj being the one
\* dict the function reuses for every line (lines 81-86).
RECURSIVE JsonlLines(_, _, _)
JsonlLines(json_dict, j, data_obj) ==
    IF j > Len(json_dict) THEN <<>>
    ELSE LET withId == Update(data_obj, [x \in {"id"} |-> json_dict[j].idx])
             obj == Update(withId, json_dict[j].data_dict)
         IN <<obj>> \o JsonlLines(json_dict, j + 1, obj)

\* create_jsonl_data(data_dir, jsonl_filename, json_dict): the file's lines.
create_jsonl_data(json_dict) == JsonlLines(json_dict, 1, [x \in {} |-> <<>>])

\* open(..., "w") or to_csv on path p: creates the file or replaces it.
WriteFile(dir, p, content) ==
    [q \in (DOMAIN dir) \cup {p} |-> IF q = p THEN content ELSE dir[q]]

\* The three csv writes of lines 146-148.
ExportCsv(dir, name, cols, tr, va, te) ==
    WriteFile(WriteFile(WriteFile(dir,
        name \o sTrainCsv, [columns |-> cols, rows |-> tr]),
        name \o sValCsv, [columns |-> cols, rows |-> va]),
        name \o sTestCsv, [columns |-> cols, rows |-> te])

\* The three jsonl writes of lines 151-162.
ExportJsonl(dir, name, tr, va, te) ==
    WriteFile(WriteFile(WriteFile(dir,
        name \o sTrainJsonl, create_jsonl_data(ToJsonIndex(tr))),
        name \o sValJsonl, create_jsonl_data(ToJsonIndex(va))),
        name \o sTestJsonl, create_jsonl_data(ToJsonIndex(te)))

\* One iteration of the split and export loop, lines 138-162.
SplitExport ==
    /\ pc = "split"
    /\ i <= Len(csv_files)
    /\ LET name == csv_files[i].name
           df == csv_files[i].df
       IN \/ /\ SplitFails(Len(df.rows), 5)
             /\ Raise("split")
             /\ UNCHANGED <<i, train, val, test, csvDir, jsonDir>>
          \/ /\ ~SplitFails(Len(df.rows), 5)
             /\ \E s1 \in Splits(df.rows, 5) :
                  LET in2 == SecondSplitInput(df.rows, s1.train) IN
                  \/ /\ SplitFails(Len(in2), 4)
                     /\ train' = s1.train
                     /\ test' = s1.test
                     /\ Raise("split")
                     /\ UNCHANGED <<i, val, csvDir, jsonDir>>
                  \/ /\ ~SplitFails(Len(in2), 4)
                     /\ \E s2 \in Splits(in2, 4) :
                          /\ train' = s2.train
                          /\ val' = s2.test
                          /\ test' = s1.test
                          /\ csvDir' = ExportCsv(csvDir, name, df.columns,
                                                 s2.train, s2.test, s1.test)
                          /\ jsonDir' = ExportJsonl(jsonDir, name,
                                                    s2.train, s2.test, s1.test)
                     /\ i' = i + 1
                     /\ UNCHANGED <<pc, failedAt>>
    /\ UNCHANGED <<inputVars, csv_files, remapVars, modelFile, stdout>>

\* The split and export loop is exhausted.
SplitDone ==
    /\ pc = "split"
    /\ i > Len(csv_files)
    /\ pc' = "ckpt"
    /\ UNCHANGED <<failedAt, inputVars, partVars, remapVars, modelFile, stdout>>

\* ------------------------------------------------------------ remapper
\* remove_data_parallel = True, line 211.
remove_data_parallel == TRUE

Suffixes == {sWeight, sBias, sRunningMean, sRunningVar}
Layers == {sNorm, sRelu, sConv}

\* The texts group 2 of the pattern can be: (?:[12])\.(?:weight|bias|...).
Group2s == {<<d>> \o sDot \o suf : d \in {"1", "2"}, suf \in Suffixes}

\* s without the digits it ends with.
RECURSIVE StripDigits(_)
StripDigits(s) == IF s # <<>> /\ IsDigit(s[Len(s)]) THEN StripDigits(DropLast(s, 1))
                  ELSE s

\* g is a text group 1 can be: .*denselayer\d+\.(?:norm|relu|conv).
IsGroup1(g) ==
    \E layer \in Layers :
       /\ EndsWith(g, sDot \o layer)
       /\ LET h == DropLast(g, Len(layer) + 1) IN
          /\ StripDigits(h) # h
          /\ EndsWith(StripDigits(h), sDenselayer)

\* pattern.match(key), line 216: the group 2 of the match, as a set that is
\* empty when the key does not match (the pattern is anchored at both ends,
\* so a key has at most one match).
PatternMatch(aKey) ==
    {g2 \in Group2s : /\ EndsWith(aKey, sDot \o g2)
                      /\ IsGroup1(DropLast(aKey, Len(g2) + 1))}

\* match.group(1) + match.group(2) if match else key, line 217.
Rewritten(aKey) ==
    IF PatternMatch(aKey) # {}
    THEN LET g2 == CHOOSE g \in PatternMatch(aKey) : TRUE
         IN DropLast(aKey, Len(g2) + 1) \o g2
    ELSE aKey

\* A new_key that forgets the rewrite of the legacy pattern.
NewKeyNoRewrite(aKey) == IF remove_data_parallel THEN DropFirst(aKey, 7) ELSE aKey

\* A new_key that strips one character less than the wrapper prefix has.
NewKeyStripSix(aKey) == IF remove_data_parallel THEN DropFirst(Rewritten(aKey), 6)
                        ELSE Rewritten(aKey)

\* new_key of lines 217-218.
NewKey(aKey) == IF remove_data_parallel THEN DropFirst(Rewritten(aKey), 7)
               ELSE Rewritten(aKey)

\* A delete condition that forgets remove_data_parallel.
DeleteOldMatchOnly(aKey) == PatternMatch(aKey) # {}

\* The condition of line 221.
DeleteOld(aKey) == PatternMatch(aKey) # {} \/ remove_data_parallel

\* An ordered dict is the list of its [k, v] items in insertion order.
DictKeys(sd) == [j \in 1..Len(sd) |-> sd[j].k]

DictHas(sd, aKey) == \E j \in 1..Len(sd) : sd[j].k = aKey

\* sd[key]
DictGet(sd, aKey) == sd[CHOOSE j \in 1..Len(sd) : sd[j].k = aKey].v

\* sd[key] = v: in place for a key the dict has, else appended.
DictSet(sd, aKey, v) ==
    IF DictHas(sd, aKey)
    THEN [j \in 1..Len(sd) |-> IF sd[j].k = aKey THEN [k |-> aKey, v |-> v] ELSE sd[j]]
    ELSE Append(sd, [k |-> aKey, v |-> v])

\* del sd[key]
DictDel(sd, aKey) ==
    LET keep(e) == e.k # aKey IN SelectSeq(sd, keep)

\* The dict as a function from key to tensor, its order forgotten.
AsMapping(sd) == [x \in Range(DictKeys(sd)) |-> DictGet(sd, x)]

\* The body of the remapping loop for one key, lines 216-222.  Every key of
\* the snapshot is still in the dict at its turn (a turn deletes only its
\* own key), so the lookup never raises KeyError.
RemapStep(sd, oldKey) ==
    LET inserted == DictSet(sd, NewKey(oldKey), DictGet(sd, oldKey))
    IN IF DeleteOld(oldKey) THEN DictDel(inserted, oldKey) ELSE inserted

\* The whole loop of lines 215-222 over the key list order.
RECURSIVE RemapLoop(_, _)
RemapLoop(sd, order) ==
    IF order = <<>> THEN sd
    ELSE RemapLoop(RemapStep(sd, Head(order)), Tail(order))

\* The parameter names of model_ft, the model of lines 178-202, cut down to
\* one dense-layer parameter and one classifier parameter.
s1Weight == <<"1", ".">> \o sWeight
kCurrent == sFeaturesNorm \o s1Weight
kCurrentHead == sClassifier
ExpectedKeys == {kCurrent, kCurrentHead}

\* torch.load and checkpoint['state_dict'], lines 208-210.
LoadCheckpoint ==
    /\ pc = "ckpt"
    /\ ckpt # "absent"
    /\ stdout' = Append(stdout, "=> loading checkpoint")
    /\ \/ /\ ckpt = "ok"
          /\ state_dict' = ckptDict
          /\ keys' = DictKeys(ckptDict)
          /\ k' = 1
          /\ pc' = "remap"
          /\ UNCHANGED failedAt
       \/ /\ ckpt = "corrupt"
          /\ Raise("ckpt")
          /\ UNCHANGED <<state_dict, keys, k>>
    /\ UNCHANGED <<inputVars, partVars, key, new_key, loadCalls, loaded, modelFile>>

\* A script without the os.path.isfile test: torch.load raises on the
\* missing file.
NoCheckpointRaises ==
    /\ pc = "ckpt"
    /\ ckpt = "absent"
    /\ stdout' = Append(stdout, "=> loading checkpoint")
    /\ Raise("ckpt")
    /\ UNCHANGED <<inputVars, partVars, remapVars, modelFile>>

\* The else branch of lines 226-227.
NoCheckpoint ==
    /\ pc = "ckpt"
    /\ ckpt = "absent"
    /\ stdout' = Append(stdout, "=> no checkpoint found")
    /\ pc' = "save"
    /\ UNCHANGED <<failedAt, inputVars, partVars, remapVars, modelFile>>

\* One iteration of the remapping loop, lines 215-222.
RemapKey ==
    /\ pc = "remap"
    /\ k <= Len(keys)
    /\ key' = keys[k]
    /\ new_key' = NewKey(keys[k])
    /\ state_dict' = RemapStep(state_dict, keys[k])
    /\ k' = k + 1
    /\ UNCHANGED <<pc, failedAt, inputVars, partVars, keys, loadCalls, loaded,
                   modelFile, stdout>>

\* A load_state_dict(strict=False): it ignores missing and unexpected keys.
LoadStateDictLenient ==
    /\ pc = "remap"
    /\ k > Len(keys)
    /\ loadCalls' = loadCalls + 1
    /\ loaded' = TRUE
    /\ stdout' = Append(stdout, "=> loaded checkpoint")
    /\ pc' = "save"
    /\ UNCHANGED <<failedAt, inputVars, partVars, state_dict, keys, k, key, new_key,
                   modelFile>>

\* model_ft.load_state_dict(state_dict), line 224: strict, so it raises
\* unless the keys are exactly the model's parameter names.
LoadStateDict ==
    /\ pc = "remap"
    /\ k > Len(keys)
    /\ loadCalls' = loadCalls + 1
    /\ \/ /\ Range(DictKeys(state_dict)) = ExpectedKeys
          /\ loaded' = TRUE
          /\ stdout' = Append(stdout, "=> loaded checkpoint")
          /\ pc' = "save"
          /\ UNCHANGED failedAt
       \/ /\ Range(DictKeys(state_dict)) # ExpectedKeys
          /\ Raise("load")
          /\ UNCHANGED <<loaded, stdout>>
    /\ UNCHANGED <<inputVars, partVars, state_dict, keys, k, key, new_key, modelFile>>

\* torch.save(model_ft.densenet121, ...), lines 229-230.
SaveModel ==
    /\ pc = "save"
    /\ modelFile' = Append(modelFile, IF loaded THEN "checkpoint" ELSE "pretrained")
    /\ stdout' = Append(stdout, "Model saved.")
    /\ pc' = "done"
    /\ UNCHANGED <<failedAt, inputVars, partVars, remapVars>>

\* ------------------------------------------------------------ runs
\* Keys a checkpoint may hold.
kLegacy == WrapperPrefix \o sFeaturesNorm \o sDot \o s1Weight
kHead == WrapperPrefix \o sClassifier
kPrefixedCurrent == WrapperPrefix \o kCurrent
kBareLegacy == sFeaturesNorm \o sDot \o s1Weight
kDouble == WrapperPrefix \o WrapperPrefix \o sClassifier
kShort == sWeight
kConv == WrapperPrefix \o sDenselayer \o <<"1", "2", ".">> \o sConv
            \o <<".", "2", ".">> \o sRunningMean
kNearMiss == WrapperPrefix \o sFeaturesNorm \o <<".", "3", ".">> \o sWeight
KeyUniverse == {kLegacy, kHead, kPrefixedCurrent, kCurrent, kBareLegacy, kCurrentHead,
                kDouble, kShort, kConv, kNearMiss}

\* The state dicts of at most maxLen entries over KeyUniverse; the tensor of
\* the j-th entry is named j.
StateDicts(maxLen) ==
    UNION {{[j \in 1..m |-> [k |-> ks[j], v |-> j]] :
              ks \in {s \in [1..m -> KeyUniverse] :
                        \A a, b \in 1..m : a # b => s[a] # s[b]}} : m \in 0..maxLen}

\* The checkpoint of the repository's README in small: it loads.
GoodDict == <<[k |-> kLegacy, v |-> 1], [k |-> kHead, v |-> 2]>>

FileEntries(rowCounts, colChoices) ==
    {[filename |-> f, readable |-> TRUE, cols |-> c, n |-> n] :
        f \in FileNames, c \in colChoices, n \in rowCounts}
    \cup {[filename |-> f, readable |-> FALSE, cols |-> StdColumns, n |-> 0] :
            f \in FileNames}

\* Directory listings of at most maxLen entries with distinct file names.
Listings(entries, maxLen) ==
    UNION {{s \in [1..m -> entries] :
              \A a, b \in 1..m : a # b => s[a].filename # s[b].filename} :
           m \in 0..maxLen}

\* The inputs of a run: the directory and the checkpoint file.
\* (1) one source file of up to MaxRows rows, no checkpoint;
\* (2) up to MaxFiles source files, any checkpoint file;
\* (3) an empty directory and a checkpoint of up to MaxKeys entries.
Inputs ==
    \/ /\ dirExists = TRUE
       /\ listing \in {s \in Listings(FileEntries(0..MaxRows, ColumnChoices), 1) :
                         Len(s) = 1}
       /\ ckpt = "absent"
       /\ ckptDict = <<>>
    \/ /\ dirExists \in BOOLEAN
       /\ listing \in Listings(FileEntries(RunRowCounts, {StdColumns}), MaxFiles)
       /\ \/ ckpt \in {"absent", "corrupt"} /\ ckptDict = <<>>
          \/ ckpt = "ok" /\ ckptDict \in {GoodDict, <<[k |-> kCurrent, v |-> 1]>>}
    \/ /\ dirExists = TRUE
       /\ listing = <<>>
       /\ ckpt = "ok"
       /\ ckptDict \in StateDicts(MaxKeys)

Init ==
    /\ Inputs
    /\ pc = "listdir"
    /\ failedAt = "none"
    /\ csv_files = <<>>
    /\ i = 1
    /\ train = <<>>
    /\ val = <<>>
    /\ test = <<>>
    /\ csvDir = EmptyDir
    /\ jsonDir = EmptyDir
    /\ state_dict = <<>>
    /\ keys = <<>>
    /\ k = 1
    /\ key = <<>>
    /\ new_key = <<>>
    /\ loadCalls = 0
    /\ loaded = FALSE
    /\ modelFile = <<>>
    /\ stdout = <<>>

Next ==
    \/ ListDir
    \/ ReadCsv
    \/ Report
    \/ SplitExport
    \/ SplitDone
    \/ LoadCheckpoint
    \/ NoCheckpoint
    \/ RemapKey
    \/ LoadStateDict
    \/ SaveModel

Spec == Init /\ [][Next]_vars

\* ------------------------------------------------------------ properties
\* The split and export loop has finished an iteration and the run has not
\* failed: train, val and test are the partitions of csv_files[i - 1].
LastExported == i > 1 /\ pc \in {"split", "ckpt", "remap", "save", "done"}

\* The partitioning step ran to its end.
PartitionDone == \/ pc \in {"ckpt", "remap", "save", "done"}
                 \/ pc = "failed" /\ failedAt \in {"ckpt", "load"}

\* The remapping loop ran to its end.
RemapDone == /\ ckpt = "ok"
             /\ \/ pc = "remap" /\ k > Len(keys)
                \/ pc \in {"save", "done"}
                \/ pc = "failed" /\ failedAt = "load"

Indices(rows) == {rows[j].index : j \in 1..Len(rows)}

\* C1: for a source table on which both splits succeed, |train| + |val| +
\* |test| = |T|, the three partitions are pairwise disjoint by original row
\* index, and their union is the set of rows of T.
C1_Partition ==
    LastExported =>
        LET T == csv_files[i - 1].df.rows IN
        /\ Len(train) + Len(val) + Len(test) = Len(T)
        /\ Indices(train) \cap Indices(val) = {}
        /\ Indices(train) \cap Indices(test) = {}
        /\ Indices(val) \cap Indices(test) = {}
        /\ Range(train) \cup Range(val) \cup Range(test) = Range(T)
        /\ Indices(train) \cup Indices(val) \cup Indices(test) = 0..(Len(T) - 1)

\* A four-row table split into two train rows, one validation row and one
\* test row.
C1_Witness == LastExported /\ Len(train) = 2 /\ Len(val) = 1 /\ Len(test) = 1

\* The lines of the jsonl file at path carry, line by line, the original
\* index of the rows of part as their id.
IdsAreIndices(path, part) ==
    /\ path \in DOMAIN jsonDir
    /\ Len(jsonDir[path]) = Len(part)
    /\ \A j \in 1..Len(part) : jsonDir[path][j]["id"] = IntToStr(part[j].index)

\* C2: every record written to a partition's .jsonl file has an id equal to
\* the original positional index of its row in the source table, whatever
\* columns the table has.
C2_IdIsOriginalIndex ==
    LastExported =>
        LET name == csv_files[i - 1].name IN
        /\ IdsAreIndices(name \o sTrainJsonl, train)
        /\ IdsAreIndices(name \o sValJsonl, val)
        /\ IdsAreIndices(name \o sTestJsonl, test)

\* C3: after the partitioning step has run over a directory of source files
\* with distinct names, every source file has its own six artifacts: N
\* source files yield 6 * N distinct artifacts.
C3_SixArtifactsPerFile ==
    PartitionDone =>
        Cardinality(DOMAIN csvDir) + Cardinality(DOMAIN jsonDir) = 6 * Len(listing)

\* The transform of a key as the specification words it: the rewrite of the
\* legacy pattern, then the first 7 characters stripped.
Transform(aKey) == DropFirst(Rewritten(aKey), 7)

InitialKeys == Range(DictKeys(ckptDict))

\* The mapping holds exactly the transformed keys, each with the tensor its
\* original key had.
AllKeysReplaced ==
    /\ Range(DictKeys(state_dict)) = {Transform(e) : e \in InitialKeys}
    /\ \A e \in InitialKeys :
          /\ DictHas(state_dict, Transform(e))
          /\ DictGet(state_dict, Transform(e)) = DictGet(ckptDict, e)

\* The transform maps no two keys of the checkpoint to one key and maps no
\* key of the checkpoint to a key of the checkpoint.
NoKeyCollision ==
    /\ \A a, b \in InitialKeys : Transform(a) = Transform(b) => a = b
    /\ \A a \in InitialKeys : Transform(a) \notin InitialKeys

\* C4 as claimed: after the remapping loop, for every loaded state mapping,
\* the key set is exactly the transformed keys and each transformed key
\* holds the tensor of its original key.
C4_AllKeysReplaced == RemapDone => AllKeysReplaced

\* C4 as amended: the same, for the state mappings on which the transform is
\* injective and yields no key that is itself an original key.
C4_AllKeysReplacedNoCollision == (RemapDone /\ NoKeyCollision) => AllKeysReplaced

\* The loop has rewritten the two-entry checkpoint into the model's names.
C4_Witness ==
    /\ RemapDone
    /\ NoKeyCollision
    /\ ckptDict = GoodDict
    /\ state_dict = <<[k |-> kCurrent, v |-> 1], [k |-> kCurrentHead, v |-> 2]>>

\* Every order of traversing the snapshot ends with the mapping the run
\* ended with.
OrderIndependent ==
    \A p \in Permutations(1..Len(keys)) :
       AsMapping(RemapLoop(ckptDict, [j \in 1..Len(keys) |-> keys[p[j]]]))
          = AsMapping(state_dict)

\* C5 as claimed: for every input state mapping, any two orders of
\* traversing the snapshotted key list end with the same mapping.
C5_OrderIndependent == RemapDone => OrderIndependent

\* C5 as amended: the same, for the state mappings on which the transform is
\* injective and yields no key that is itself an original key.
C5_OrderIndependentNoCollision == (RemapDone /\ NoKeyCollision) => OrderIndependent

\* The loop has run over three keys that do not collide.
C5_Witness ==
    /\ RemapDone
    /\ NoKeyCollision
    /\ Len(keys) = 3
    /\ Len(state_dict) = 3

\* C6: applying the remapping loop again to a mapping the loop has produced
\* changes nothing.
C6_Idempotent ==
    RemapDone => RemapLoop(state_dict, DictKeys(state_dict)) = state_dict

\* The text without the dot before its last-but-one field (the dot
\* between <norm|relu|conv> and the sub-index of a legacy key).
RECURSIVE DotPositions(_, _)
DotPositions(s, j) ==
    IF j > Len(s) THEN <<>>
    ELSE (IF s[j] = "." THEN <<j>> ELSE <<>>) \o DotPositions(s, j + 1)

WithoutSubIndexDot(s) ==
    LET dots == DotPositions(s, 1)
        at == dots[Len(dots) - 1]
    IN SubSeq(s, 1, at - 1) \o SubSeq(s, at + 1, Len(s))

\* C7: a key that starts with "module." ends as the key without that prefix
\* and, when it matches the legacy pattern, without the dot between
\* <norm|relu|conv> and the sub-index;
\* "module.features.denselayer1.norm.1.weight" becomes
\* "features.denselayer1.norm1.weight" and "module.classifier.0.weight"
\* becomes "classifier.0.weight".
C7_WrapperKeys ==
    (ckpt = "ok" /\ k > 1 /\ StartsWith(key, WrapperPrefix)) =>
        /\ new_key = (IF PatternMatch(key) # {}
                      THEN WithoutSubIndexDot(DropFirst(key, Len(WrapperPrefix)))
                      ELSE DropFirst(key, Len(WrapperPrefix)))
        /\ key = kLegacy => new_key = kCurrent
        /\ key = kHead => new_key = kCurrentHead

\* The loop has just rewritten the legacy key of the example.
C7_Witness == ckpt = "ok" /\ k > 1 /\ key = kLegacy /\ new_key = kCurrent

\* C8: with no file at the checkpoint path the run does not fail there, the
\* load and the remapping are skipped (the state mapping is never read or
\* changed, load_state_dict is never called), "no checkpoint found" is
\* reported and saved_chexnet.pt is written with the fresh backbone.
C8_CheckpointAbsent ==
    ckpt = "absent" =>
        /\ failedAt \notin {"ckpt", "load"}
        /\ state_dict = <<>> /\ keys = <<>> /\ k = 1
        /\ loadCalls = 0 /\ ~loaded
        /\ \A j \in 1..Len(stdout) : stdout[j] \in {"=> no checkpoint found", "Model saved."}
        /\ pc \in {"save", "done"} => stdout[1] = "=> no checkpoint found"
        /\ pc \in {"ckpt", "save"} => ENABLED Next
        /\ pc = "done" => modelFile = <<"pretrained">>

\* A run without a checkpoint has ended with the model file written.
C8_Witness == ckpt = "absent" /\ pc = "done" /\ modelFile = <<"pretrained">>

\* The six artifacts of the j-th loaded source file are on disk.
ArtifactsOnDisk(j) ==
    LET name == csv_files[j].name IN
    /\ {name \o sTrainCsv, name \o sValCsv, name \o sTestCsv} \subseteq DOMAIN csvDir
    /\ {name \o sTrainJsonl, name \o sValJsonl, name \o sTestJsonl} \subseteq DOMAIN jsonDir

\* C9: saved_chexnet.pt is written at most once and only as the last step,
\* after the export of every source file and, when the checkpoint exists,
\* after the remapped mapping has been loaded; a fatal failure of the
\* partitioning step or a remapped key set that is not the model's
\* parameter names ends the run with no model file written.
C9_ModelSavedLast ==
    /\ Len(modelFile) <= 1
    /\ pc = "failed" => modelFile = <<>>
    /\ modelFile # <<>> =>
          /\ pc = "done"
          /\ dirExists
          /\ Len(csv_files) = Len(listing)
          /\ \A j \in 1..Len(csv_files) : ArtifactsOnDisk(j)
          /\ ckpt # "absent" =>
                /\ loaded
                /\ modelFile = <<"checkpoint">>
                /\ Range(DictKeys(state_dict)) = ExpectedKeys

\* The model file is written after two source files were exported and the
\* checkpoint was loaded.
C9_Witness == modelFile = <<"checkpoint">> /\ Len(csv_files) = 2 /\ loaded

\* C10: no csv or jsonl artifact is written before every source file of the
\* directory has been read; a missing directory or a file that fails to
\* load ends the run with the output directories unchanged; output of only
\* some files exists only after a failure in the split and export loop, and
\* then the artifacts of the files exported before it are on disk.
C10_NoOutputBeforeAllRead ==
    /\ (csvDir # EmptyDir \/ jsonDir # EmptyDir) =>
          /\ dirExists
          /\ Len(csv_files) = Len(listing)
          /\ pc \notin {"listdir", "read"}
          /\ failedAt \notin {"listdir", "read"}
    /\ failedAt \in {"listdir", "read"} => csvDir = EmptyDir /\ jsonDir = EmptyDir
    /\ (pc = "failed" /\ csvDir # EmptyDir /\ i <= Len(csv_files)) => failedAt = "split"
    /\ failedAt = "split" => \A j \in 1..(i - 1) : ArtifactsOnDisk(j)

\* The split of the second source file failed after the first was exported.
C10_Witness == failedAt = "split" /\ i = 2 /\ csvDir # EmptyDir /\ jsonDir # EmptyDir

====
